---- MODULE Spec2Model ----
(***************************************************************************)
(* A model of speech_to_phrase/train.py: the build cache and the           *)
(* orchestration of train(), the pure transformation of                    *)
(* _create_fuzzy_fst, and the single-flight registry of training tasks     *)
(* declared in const.py (State.model_train_tasks).                         *)
(***************************************************************************)
EXTENDS Integers, Sequences, FiniteSets, TLC

(***************************************************************************)
(* Bounds and value domains                                                *)
(***************************************************************************)

\* Concurrent training requests and the tasks they may create.
MaxRequests == 2
MaxTasks == 2
Requests == 1..MaxRequests
TaskIds == 1..MaxTasks

\* Lines of the base FST text.
MaxLines == 3

\* Model identifiers (Model.id); every path of train() is under
\* settings.model_train_dir(id) or settings.model_data_dir(id).
ModelIds == {"m1", "m2"}

\* The invocations of train() (coroutines); Spec drives one caller.
Invocations == {1, 2}

\* The bytes a sentence file is made of.
Bytes == {0, 1}

\* chunk_size of _get_sentences_hash (default 8192), scaled down so that a
\* sentence file has bytes on both sides of the chunk boundary.
chunk_size == 1

\* The builtin sentence file is longer than one chunk; a custom sentence
\* file fits into one chunk (file.read returns all of it).
BuiltinLen == chunk_size + 1
CustomLen == chunk_size

\* Values of model.version and of things.get_hash().
Versions == {"v1", "v2"}
ThingsHashes == {"t1", "t2"}

\* settings.custom_sentences_dirs, in configured order.
custom_sentences_dirs == <<"r1", "r2">>

\* *.yaml file names a directory may hold, in sorted order.
YamlOrder == <<"a.yaml", "b.yaml">>

\* Model attributes used to select sentence files.
language == [m \in ModelIds |-> IF m = "m1" THEN "en_US" ELSE "de_DE"]
language_family == [m \in ModelIds |-> IF m = "m1" THEN "en" ELSE "de"]

RangeOf(s) == {s[k] : k \in 1..Len(s)}
Min(a, b) == IF a < b THEN a ELSE b

DirNames == {language[m] : m \in ModelIds} \cup {language_family[m] : m \in ModelIds}
DirPaths == RangeOf(custom_sentences_dirs) \X DirNames

ZeroFile(len) == [k \in 1..len |-> 0]

NoDir == [is_dir |-> FALSE, yaml |-> <<>>]
DirWith(names) == [is_dir |-> TRUE, yaml |-> [n \in names |-> ZeroFile(CustomLen)]]

VARIABLES
    \* ---- the sentence sources (inputs on disk) ----
    sentences,        \* settings.sentences / "<sentences_language>.yaml", per model
    custom,           \* custom sentence directories: DirPaths -> directory
    \* ---- the file system under train_dir/<id> and models_dir/<id> ----
    model_dir,        \* models_dir/<id>/model exists
    extractor,        \* the model comes with an extractor directory
    train_dir,        \* train_dir/<id> exists
    training_info_file, \* train_dir/<id>/training_info.json
    data_dir,         \* train_dir/<id>/data
    graph_dir,        \* train_dir/<id>/graph (written by mkgraph.sh)
    graph_old,        \* entries of train_dir/<id> matching "graph_*"
    online_dir,       \* models_dir/<id>/model/online
    \* ---- the invocations of train() ----
    pc,               \* position of each invocation
    args,             \* (model, version, things hash, force_retrain) of the call
    training_info,    \* the TrainingInfo computed at lines 49-53
    result,           \* how the invocation ended
    ops,              \* file-system operations and stages run by the invocation
    \* ---- history (not program state) ----
    fs0,              \* the model's file system when the invocation was called
    last_call,        \* per model: the previous completed call
    build,            \* per model: the stages the most recent non-skipped build
                      \* completed (none once it was abandoned)
    \* ---- one run of _create_fuzzy_fst ----
    text_fst,         \* lines of G.arpa.fst.txt, each with its line end
    words,            \* fst.words
    word_order,       \* the order in which iterating fst.words yields them
    fz_pc,            \* "copy", "loops" or "done"
    line_no,          \* lines of text_fst read so far
    states,           \* the set states of the function
    state_order,      \* the order in which iterating states yields them
    loop_no,          \* states whose self loops were written
    text_fuzzy_fst,   \* lines printed to G.fuzzy.fst.txt
    \* ---- the registry of training tasks (State, const.py 100-117) ----
    model_train_tasks,      \* model id -> task
    model_train_tasks_lock, \* who holds the lock
    requests,               \* the training requests
    train_tasks,            \* the tasks created so far
    \* ---- one run of _create_lexicon (the FST's words are in words) ----
    lx_pc,            \* position in _create_lexicon
    output_words,     \* fst.output_words
    store,            \* lexicon.lookup: word -> list of pronunciations
    spn_phone,        \* the argument spn_phone
    lookups,          \* the words lexicon.lookup was called with, in order
    dictionary_file,  \* lines printed to data/local/dict/lexicon.txt
    missing_words,    \* the set missing_words
    report,           \* train_dir/missing_words_dictionary.txt
    g2p_calls,        \* the invocations of phonetisaurus, in order
    phonetisaurus_output, \* the lines it returned
    out_no,           \* lines of phonetisaurus_output handled so far
    \* ---- the sentence files opened by the two functions that read them ----
    hash_opened,      \* by _get_sentences_hash, in order
    intents_opened    \* by _create_intents, in order

env_vars == <<sentences, custom>>
fs_vars == <<model_dir, extractor, train_dir, training_info_file, data_dir, graph_dir,
             graph_old, online_dir>>
inv_vars == <<pc, args, training_info, result, ops>>
hist_vars == <<fs0, last_call, build>>
train_vars == <<env_vars, fs_vars, inv_vars, hist_vars>>
fuzzy_vars == <<text_fst, words, word_order, fz_pc, line_no, states, state_order,
                loop_no, text_fuzzy_fst>>
registry_vars == <<model_train_tasks, model_train_tasks_lock, requests, train_tasks>>
lexicon_vars == <<lx_pc, output_words, store, spn_phone, lookups, dictionary_file,
                  missing_words, report, g2p_calls, phonetisaurus_output, out_no>>

select_vars == <<hash_opened, intents_opened>>

\* What a step of train() leaves alone.
other_vars == <<fuzzy_vars, registry_vars, lexicon_vars, select_vars>>

(***************************************************************************)
(* _get_sentences_hash (train.py 522-549)                                  *)
(***************************************************************************)

\* Mutant of read: the whole file is read, the chunk size ignored.
read_whole(content, n) == content

\* file.read(n): the first n bytes, fewer when the file is shorter.
read(content, n) == SubSeq(content, 1, Min(n, Len(content)))

\* sorted(dir.glob("*.yaml")): the directory's yaml files in sorted order.
sorted_glob(dir) ==
    SelectSeq(YamlOrder, LAMBDA n : n \in DOMAIN dir.yaml)

\* Mutant of dir_for_language: the language-family directory is tried
\* first.
dir_for_family_first(m, root) ==
    IF custom[<<root, language_family[m]>>].is_dir
    THEN <<<<root, language_family[m]>>>>
    ELSE IF custom[<<root, language[m]>>].is_dir
         THEN <<<<root, language[m]>>>>
         ELSE <<>>

\* Lines 536-542 (and 163-169): the exact-language directory if it is a
\* directory, otherwise the language-family directory, otherwise none.
dir_for_language(m, root) ==
    IF custom[<<root, language[m]>>].is_dir
    THEN <<<<root, language[m]>>>>
    ELSE IF custom[<<root, language_family[m]>>].is_dir
         THEN <<<<root, language_family[m]>>>>
         ELSE <<>>

RECURSIVE Flatten(_)
Flatten(ss) == IF ss = <<>> THEN <<>> ELSE Head(ss) \o Flatten(Tail(ss))

\* The selected custom sentence files of one root, as <<dir path, name>>.
selected_in_root(m, root) ==
    LET d == dir_for_language(m, root)
    IN  IF d = <<>> THEN <<>>
        ELSE LET names == sorted_glob(custom[d[1]])
             IN  [k \in 1..Len(names) |-> <<d[1], names[k]>>]

\* All selected custom sentence files, roots in configured order.
selected_custom(m) ==
    Flatten([r \in 1..Len(custom_sentences_dirs) |->
                selected_in_root(m, custom_sentences_dirs[r])])

file_content(p) == custom[p[1]].yaml[p[2]]

\* The chunks fed to hasher.update, in order: builtin first, then custom.
hashed_chunks(m, n) ==
    <<read(sentences[m], n)>> \o
    [k \in 1..Len(selected_custom(m)) |-> read(file_content(selected_custom(m)[k]), n)]

\* Mutant of _get_sentences_hash: the custom sentence files are left out.
_get_sentences_hash_builtin_only(m, n) == read(sentences[m], n)

\* sha256 over the concatenation of the chunks; hexdigest is modelled as
\* the concatenated bytes themselves (injective on what was hashed).
_get_sentences_hash(m, n) == Flatten(hashed_chunks(m, n))

(***************************************************************************)
(* Values of the file system and of an invocation                          *)
(***************************************************************************)

\* TrainingInfo (train.py 28-34).
TrainingInfo(version, s_hash, t_hash) ==
    [model_version |-> version, sentences_hash |-> s_hash, things_hash |-> t_hash]

NoInfo == TrainingInfo("", <<>>, "")

\* Contents of training_info.json: no file, a file cut short (opened for
\* writing and not yet dumped), or the JSON of a TrainingInfo.
NoRecord == [kind |-> "absent", info |-> NoInfo]
TruncatedRecord == [kind |-> "truncated", info |-> NoInfo]
JsonRecord(info) == [kind |-> "json", info |-> info]

\* A generated output (train_dir/<id>/data, train_dir/<id>/graph,
\* models_dir/<id>/model/online): "absent", "partial" or "complete", and the
\* running invocation that wrote it (0: written before the running calls).
NoOutput == [state |-> "absent", by |-> 0]
Output(state, i) == [state |-> state, by |-> i]

NoArgs == [model |-> "m1", version |-> "v1", things_hash |-> "t1",
           force_retrain |-> FALSE]
NoResult == [kind |-> "none", stage |-> ""]

\* The stages of a build, in the order train() runs them (109-129).
Stages == <<"_create_lexicon", "_prepare_lang", "_create_arpa",
            "_create_fuzzy_fst", "_mkgraph", "_prepare_online_decoding">>

\* What the fingerprint is computed from (49-53): the version, the things
\* hash and the first chunk_size bytes of each selected sentence file.
hashed_inputs(m, a) ==
    [version |-> a.version, things_hash |-> a.things_hash,
     chunks |-> <<SubSeq(sentences[m], 1, chunk_size)>> \o
                [k \in 1..Len(selected_custom(m)) |->
                    SubSeq(file_content(selected_custom(m)[k]), 1,
                           Min(chunk_size, Len(file_content(selected_custom(m)[k]))))]]

NoInputs == [version |-> "", things_hash |-> "", chunks |-> <<>>]
NoCall == [kind |-> "none", force_retrain |-> FALSE, inputs |-> NoInputs]

\* The file system of one model, as one value.
snapshot(m) ==
    [model_dir |-> model_dir[m], train_dir |-> train_dir[m],
     training_info_file |-> training_info_file[m], data_dir |-> data_dir[m],
     graph_dir |-> graph_dir[m], graph_old |-> graph_old[m],
     online_dir |-> online_dir[m]]

NoSnapshot ==
    [model_dir |-> FALSE, train_dir |-> FALSE, training_info_file |-> NoRecord,
     data_dir |-> NoOutput, graph_dir |-> NoOutput, graph_old |-> "none",
     online_dir |-> NoOutput]

\* Mutant of model_of: while the first invocation runs, every invocation
\* works in the directories of its model.
model_of_first(i) == IF pc[1] = "idle" THEN args[i].model ELSE args[1].model

model_of(i) == args[i].model

\* Mutant of log: the newest step is put in front.
log_in_front(i, entries) == [ops EXCEPT ![i] = entries \o @]

log(i, entries) == [ops EXCEPT ![i] = @ \o entries]

finish(i, kind, stage) ==
    /\ pc' = [pc EXCEPT ![i] = "done"]
    /\ result' = [result EXCEPT ![i] = [kind |-> kind, stage |-> stage]]

stage_done(m, stage) == [build EXCEPT ![m] = Append(@, stage)]

(***************************************************************************)
(* The disks the model starts from                                         *)
(***************************************************************************)

NoCustom == [p \in DirPaths |-> NoDir]

\* One custom root holding the exact-language directory or only the
\* language-family directory; train_dir/<id> holding no "graph_*" entry, a
\* "graph_*" directory or a "graph_*" file; a model with or without an
\* extractor directory.
InitialDisks ==
    { [custom |-> [NoCustom EXCEPT ![<<"r1", "en_US">>] = DirWith({"a.yaml"})],
       graph_old |-> "none", extractor |-> TRUE],
      [custom |-> [NoCustom EXCEPT ![<<"r1", "en">>] = DirWith({"a.yaml"})],
       graph_old |-> "dir", extractor |-> FALSE],
      [custom |-> [NoCustom EXCEPT ![<<"r1", "en_US">>] = DirWith({"a.yaml"})],
       graph_old |-> "file", extractor |-> TRUE] }

\* Nothing has been trained on the disk: no model, no train directory.
TrainInit(disk) ==
    /\ sentences = [m \in ModelIds |-> ZeroFile(BuiltinLen)]
    /\ custom = disk.custom
    /\ graph_old = [m \in ModelIds |-> disk.graph_old]
    /\ extractor = [m \in ModelIds |-> disk.extractor]
    /\ model_dir = [m \in ModelIds |-> FALSE]
    /\ train_dir = [m \in ModelIds |-> FALSE]
    /\ training_info_file = [m \in ModelIds |-> NoRecord]
    /\ data_dir = [m \in ModelIds |-> NoOutput]
    /\ graph_dir = [m \in ModelIds |-> NoOutput]
    /\ online_dir = [m \in ModelIds |-> NoOutput]
    /\ pc = [i \in Invocations |-> "idle"]
    /\ args = [i \in Invocations |-> NoArgs]
    /\ training_info = [i \in Invocations |-> NoInfo]
    /\ result = [i \in Invocations |-> NoResult]
    /\ ops = [i \in Invocations |-> <<>>]
    /\ fs0 = [i \in Invocations |-> NoSnapshot]
    /\ last_call = [m \in ModelIds |-> NoCall]
    /\ build = [m \in ModelIds |-> <<>>]

\* _create_fuzzy_fst is about to open text_fst (line 420) for an FST with
\* the words ws, which a loop over the set yields in the order given.
FuzzyInit(text, ws, order) ==
    /\ text_fst = text
    /\ words = ws
    /\ word_order = order
    /\ fz_pc = "copy"
    /\ line_no = 0
    /\ states = {}
    /\ state_order = <<>>
    /\ loop_no = 0
    /\ text_fuzzy_fst = <<>>

\* A file that is absent, or present with its lines.
NoFile == [exists |-> FALSE, lines |-> <<>>]
FileWith(lines) == [exists |-> TRUE, lines |-> lines]

\* _create_lexicon has not been entered yet: the FST has the output words
\* ows, lexicon.lookup answers from st, the noise phone is spn, and a
\* report of an earlier build is on disk or not.
LexiconInit(ows, st, spn, old_report) ==
    /\ lx_pc = "off"
    /\ output_words = ows
    /\ store = st
    /\ spn_phone = spn
    /\ lookups = <<>>
    /\ dictionary_file = NoFile
    /\ missing_words = {}
    /\ report = old_report
    /\ g2p_calls = <<>>
    /\ phonetisaurus_output = <<>>
    /\ out_no = 0

\* Neither function has opened a sentence file.
SelectOff == hash_opened = <<>> /\ intents_opened = <<>>

\* No run of _create_lexicon is modelled.
LexiconOff == LexiconInit({}, <<>>, <<>>, NoFile)

NoTask == 0
Unlocked == 0
NoRequest == [pc |-> "idle", model |-> "", seen |-> NoTask, task |-> NoTask,
              outcome |-> ""]
NewTask == [state |-> "new", model |-> "", removed |-> FALSE]

\* const.py 107 and 110: State() starts with an empty dict of tasks and an
\* unlocked asyncio.Lock.
empty_registry == [m \in ModelIds |-> NoTask]

RegistryInit ==
    /\ model_train_tasks = empty_registry
    /\ model_train_tasks_lock = Unlocked
    /\ requests = [r \in Requests |-> NoRequest]
    /\ train_tasks = [t \in TaskIds |-> NewTask]

Init ==
    /\ \E disk \in InitialDisks : TrainInit(disk)
    /\ FuzzyInit(<<>>, {}, <<>>)
    /\ RegistryInit
    /\ LexiconOff
    /\ SelectOff

(***************************************************************************)
(* train() (train.py 37-136), one action per step                          *)
(***************************************************************************)

\* A caller invokes train(model, settings, things, force_retrain).
Call(i, m, version, t_hash, force) ==
    /\ pc[i] = "idle"
    /\ pc' = [pc EXCEPT ![i] = "model_dir"]
    /\ args' = [args EXCEPT ![i] = [model |-> m, version |-> version,
                                    things_hash |-> t_hash, force_retrain |-> force]]
    /\ fs0' = [fs0 EXCEPT ![i] = snapshot(m)]
    /\ UNCHANGED <<other_vars, env_vars, fs_vars, training_info, result, ops, last_call, build>>

\* Lines 45-47: download the model if models_dir/<id>/model is missing.
EnsureModel(i) ==
    LET m == model_of(i)
    IN  /\ pc[i] = "model_dir"
        /\ pc' = [pc EXCEPT ![i] = "decide"]
        /\ model_dir' = [model_dir EXCEPT ![m] = TRUE]
        /\ ops' = log(i, IF model_dir[m] THEN <<>> ELSE <<"download_model">>)
        /\ UNCHANGED <<other_vars, env_vars, extractor, train_dir, training_info_file, data_dir,
                       graph_dir, graph_old, online_dir, args, training_info, result,
                       hist_vars>>

\* Lines 49-53: the fingerprint of this call.
fingerprint(i) ==
    TrainingInfo(args[i].version,
                 _get_sentences_hash(model_of(i), chunk_size),
                 args[i].things_hash)

\* Line 58: json.load and TrainingInfo(**...) raise on a file that does not
\* hold the JSON object of a TrainingInfo.
load_raises(force, file) ==
    (~force) /\ file.kind = "truncated"

\* Mutant of should_skip: the things hash is not compared.
should_skip_without_things(force, file, info) ==
    /\ ~force
    /\ file.kind = "json"
    /\ file.info.model_version = info.model_version
    /\ file.info.sentences_hash = info.sentences_hash

\* Lines 56-62: skip when not forced, the file exists and holds an equal
\* TrainingInfo (dataclass equality: all three fields).
should_skip(force, file, info) ==
    /\ ~force
    /\ file.kind = "json"
    /\ file.info.model_version = info.model_version
    /\ file.info.sentences_hash = info.sentences_hash
    /\ file.info.things_hash = info.things_hash

\* Lines 49-62: compute the fingerprint and decide.
Decide(i) ==
    LET m == model_of(i)
        info == fingerprint(i)
        file == training_info_file[m]
        force == args[i].force_retrain
    IN  /\ pc[i] = "decide"
        /\ training_info' = [training_info EXCEPT ![i] = info]
        /\ IF load_raises(force, file)
           THEN finish(i, "raised", "json.load")
           ELSE IF should_skip(force, file, info)
                THEN finish(i, "skipped", "")
                ELSE /\ pc' = [pc EXCEPT ![i] = "begin"]
                     /\ UNCHANGED result
        /\ UNCHANGED <<other_vars, env_vars, fs_vars, args, ops, hist_vars>>

\* Mutant of unlink_record: the previous record is left on disk.
keep_record(file) == file

\* Line 69: training_info_path.unlink(missing_ok=True).
unlink_record(file) == NoRecord

\* Lines 64-69: create the train directory, delete the previous record.
Begin(i) ==
    LET m == model_of(i)
    IN  /\ pc[i] = "begin"
        /\ pc' = [pc EXCEPT ![i] = "intents"]
        /\ train_dir' = [train_dir EXCEPT ![m] = TRUE]
        /\ training_info_file' = [training_info_file EXCEPT ![m] = unlink_record(@)]
        /\ ops' = log(i, (IF train_dir[m] THEN <<>> ELSE <<"mkdir train_dir">>)
                         \o (IF training_info_file[m].kind = "absent" THEN <<>>
                             ELSE <<"unlink training_info">>))
        /\ build' = [build EXCEPT ![m] = <<>>]
        /\ UNCHANGED <<other_vars, env_vars, model_dir, extractor, data_dir, graph_dir, graph_old,
                       online_dir, args, training_info, result, fs0, last_call>>

\* Lines 72-74: _create_intents writes sentences.yaml, then the FST is built.
Intents(i) ==
    /\ pc[i] = "intents"
    /\ pc' = [pc EXCEPT ![i] = "clean"]
    /\ ops' = log(i, <<"write sentences.yaml", "intents_to_fst">>)
    /\ UNCHANGED <<other_vars, env_vars, fs_vars, args, training_info, result, hist_vars>>

\* Lines 84-86: shutil.rmtree(data_dir) when it exists.
rmtree_data(dir) == NoOutput

\* Lines 88-92: the loop over train_dir.glob("graph_*") skips directories
\* and calls shutil.rmtree on anything else, which raises for a file.
graph_cleanup_raises(entry) == entry = "file"

\* Mutant of glob_cleanup_graph: the loop removes train_dir/<id>/graph.
glob_removes_graph(dir) == NoOutput

\* Lines 88-92: "graph_*" does not match train_dir/<id>/graph, the directory
\* mkgraph.sh writes (473), so the loop leaves it as it is.
glob_cleanup_graph(dir) == dir

\* Lines 77-106: copy conf, delete data, walk graph_*, create path.sh.
Clean(i) ==
    LET m == model_of(i)
        done == <<"copytree conf">>
                \o (IF data_dir[m].state = "absent" THEN <<>> ELSE <<"rmtree data">>)
    IN  /\ pc[i] = "clean"
        /\ data_dir' = [data_dir EXCEPT ![m] = rmtree_data(@)]
        /\ graph_dir' = [graph_dir EXCEPT ![m] = glob_cleanup_graph(@)]
        /\ IF graph_cleanup_raises(graph_old[m])
           THEN /\ finish(i, "raised", "rmtree graph_*")
                /\ ops' = log(i, done)
           ELSE /\ pc' = [pc EXCEPT ![i] = "lexicon"]
                /\ ops' = log(i, done \o <<"write path.sh">>)
                /\ UNCHANGED result
        /\ UNCHANGED <<other_vars, env_vars, model_dir, extractor, train_dir, training_info_file,
                       graph_old, online_dir, args, training_info, hist_vars>>

\* Line 109: _create_lexicon creates data/local/dict and writes lexicon.txt.
Lexicon(i) ==
    LET m == model_of(i)
    IN  /\ pc[i] = "lexicon"
        /\ pc' = [pc EXCEPT ![i] = "prepare_lang"]
        /\ data_dir' = [data_dir EXCEPT ![m] = Output("partial", i)]
        /\ ops' = log(i, <<"_create_lexicon">>)
        /\ build' = stage_done(m, "_create_lexicon")
        /\ UNCHANGED <<other_vars, env_vars, model_dir, extractor, train_dir, training_info_file,
                       graph_dir, graph_old, online_dir, args, training_info, result,
                       fs0, last_call>>

\* Lines 114-119: the utils link, then prepare_lang.sh writes data/lang.
PrepareLang(i) ==
    LET m == model_of(i)
    IN  /\ pc[i] = "prepare_lang"
        /\ pc' = [pc EXCEPT ![i] = "arpa"]
        /\ data_dir' = [data_dir EXCEPT ![m] = Output("partial", i)]
        /\ ops' = log(i, <<"symlink utils", "_prepare_lang">>)
        /\ build' = stage_done(m, "_prepare_lang")
        /\ UNCHANGED <<other_vars, env_vars, model_dir, extractor, train_dir, training_info_file,
                       graph_dir, graph_old, online_dir, args, training_info, result,
                       fs0, last_call>>

\* Line 122: _create_arpa writes G.arpa.fst, lm.arpa and G.fst under data.
Arpa(i) ==
    LET m == model_of(i)
    IN  /\ pc[i] = "arpa"
        /\ pc' = [pc EXCEPT ![i] = "fuzzy"]
        /\ data_dir' = [data_dir EXCEPT ![m] = Output("partial", i)]
        /\ ops' = log(i, <<"_create_arpa">>)
        /\ build' = stage_done(m, "_create_arpa")
        /\ UNCHANGED <<other_vars, env_vars, model_dir, extractor, train_dir, training_info_file,
                       graph_dir, graph_old, online_dir, args, training_info, result,
                       fs0, last_call>>

\* Line 123: _create_fuzzy_fst writes G.fuzzy.fst, the last file of data.
Fuzzy(i) ==
    LET m == model_of(i)
    IN  /\ pc[i] = "fuzzy"
        /\ pc' = [pc EXCEPT ![i] = "mkgraph"]
        /\ data_dir' = [data_dir EXCEPT ![m] = Output("complete", i)]
        /\ ops' = log(i, <<"_create_fuzzy_fst">>)
        /\ build' = stage_done(m, "_create_fuzzy_fst")
        /\ UNCHANGED <<other_vars, env_vars, model_dir, extractor, train_dir, training_info_file,
                       graph_dir, graph_old, online_dir, args, training_info, result,
                       fs0, last_call>>

\* Line 126: mkgraph.sh writes train_dir/<id>/graph.
Mkgraph(i) ==
    LET m == model_of(i)
    IN  /\ pc[i] = "mkgraph"
        /\ pc' = [pc EXCEPT ![i] = "online"]
        /\ graph_dir' = [graph_dir EXCEPT ![m] = Output("complete", i)]
        /\ ops' = log(i, <<"_mkgraph">>)
        /\ build' = stage_done(m, "_mkgraph")
        /\ UNCHANGED <<other_vars, env_vars, model_dir, extractor, train_dir, training_info_file,
                       data_dir, graph_old, online_dir, args, training_info, result,
                       fs0, last_call>>

\* Line 129 (488-516): prepare_online_decoding.sh runs only when the model
\* has an extractor directory; otherwise the function returns at once.
Online(i) ==
    LET m == model_of(i)
    IN  /\ pc[i] = "online"
        /\ pc' = [pc EXCEPT ![i] = "write_record"]
        /\ IF extractor[m]
           THEN /\ online_dir' = [online_dir EXCEPT ![m] = Output("complete", i)]
                /\ ops' = log(i, <<"_prepare_online_decoding">>)
           ELSE UNCHANGED <<online_dir, ops>>
        /\ build' = stage_done(m, "_prepare_online_decoding")
        /\ UNCHANGED <<other_vars, env_vars, model_dir, extractor, train_dir, training_info_file,
                       data_dir, graph_dir, graph_old, args, training_info, result,
                       fs0, last_call>>

\* Line 132: open(training_info_path, "w") creates or truncates the file.
OpenRecord(i) ==
    LET m == model_of(i)
    IN  /\ pc[i] = "write_record"
        /\ pc' = [pc EXCEPT ![i] = "dump"]
        /\ training_info_file' = [training_info_file EXCEPT ![m] = TruncatedRecord]
        /\ ops' = log(i, <<"open training_info">>)
        /\ UNCHANGED <<other_vars, env_vars, model_dir, extractor, train_dir, data_dir, graph_dir,
                       graph_old, online_dir, args, training_info, result, hist_vars>>

\* Lines 133-136: json.dump(asdict(training_info)) and close; train returns.
DumpRecord(i) ==
    LET m == model_of(i)
    IN  /\ pc[i] = "dump"
        /\ training_info_file' = [training_info_file EXCEPT
                                     ![m] = JsonRecord(training_info[i])]
        /\ ops' = log(i, <<"dump training_info">>)
        /\ finish(i, "trained", "")
        /\ UNCHANGED <<other_vars, env_vars, model_dir, extractor, train_dir, data_dir, graph_dir,
                       graph_old, online_dir, args, training_info, hist_vars>>

\* The steps of train() that await an external process or a download:
\* a TrainingError of the stage, or the cancellation of the task, ends the
\* call there.
AwaitPcs == {"model_dir", "lexicon", "prepare_lang", "arpa", "fuzzy", "mkgraph", "online"}

\* The steps that can raise: the awaited ones and _create_intents (YAML).
FailPcs == AwaitPcs \cup {"intents"}

\* The steps before the build has begun (line 64).
EarlyPcs == {"model_dir", "decide", "begin"}

stage_at(p) ==
    CASE p = "model_dir" -> "download_model"
      [] p = "intents" -> "_create_intents"
      [] p = "lexicon" -> "_create_lexicon"
      [] p = "prepare_lang" -> "_prepare_lang"
      [] p = "arpa" -> "_create_arpa"
      [] p = "fuzzy" -> "_create_fuzzy_fst"
      [] p = "mkgraph" -> "_mkgraph"
      [] p = "online" -> "_prepare_online_decoding"
      [] OTHER -> p

\* Whether the step at p starts an external process for this model at all.
runs_at(i, p) ==
    /\ p = "model_dir" => ~model_dir[model_of(i)]
    /\ p = "online" => extractor[model_of(i)]

\* An exception leaves train() at the failing step (train has no except or
\* finally clause): what the step wrote before raising stays, nothing later
\* runs.  kind is "failed" (the step raised) or "cancelled" (the task was
\* cancelled while awaiting: CancelledError is raised at the await).  Both
\* propagate out of train() in the same way.
Raise(i, kind) ==
    LET m == model_of(i)
        p == pc[i]
    IN  /\ p \in FailPcs
        /\ kind = "cancelled" => p \in AwaitPcs
        /\ runs_at(i, p)
        /\ finish(i, "raised", stage_at(p))
        /\ ops' = log(i, (IF p = "prepare_lang" THEN <<"symlink utils">> ELSE <<>>)
                         \o <<stage_at(p)>>)
        /\ data_dir' = IF p \in {"lexicon", "prepare_lang", "arpa", "fuzzy"}
                       THEN [data_dir EXCEPT ![m] = Output("partial", i)]
                       ELSE data_dir
        /\ \E partial \in BOOLEAN :
              /\ partial => p = "mkgraph"
              /\ graph_dir' = IF partial
                              THEN [graph_dir EXCEPT ![m] = Output("partial", i)]
                              ELSE graph_dir
        /\ UNCHANGED <<other_vars, env_vars, model_dir, extractor, train_dir, training_info_file,
                       graph_old, online_dir, args, training_info, hist_vars>>

\* The process is killed while train() is running: whatever is on disk
\* stays as it is, in particular a record file opened and not yet dumped.
Crash(i) ==
    /\ pc[i] \notin {"idle", "done"}
    /\ finish(i, "crashed", stage_at(pc[i]))
    /\ UNCHANGED <<other_vars, env_vars, fs_vars, args, training_info, ops, hist_vars>>

\* How a finished call is remembered: "skipped", "trained", "early" (it
\* ended before the build began) or "interrupted" (it ended after).
call_kind(r) ==
    IF r.kind \in {"skipped", "trained"} THEN r.kind
    ELSE IF r.stage \in {"download_model", "decide", "json.load", "begin"} THEN "early"
         ELSE "interrupted"

settle(out, i) == IF out.by = i THEN [out EXCEPT !.by = 0] ELSE out

\* train() has returned or raised: the caller takes the outcome, and the
\* coroutine with its locals is gone.
Return(i) ==
    LET m == model_of(i)
        kind == call_kind(result[i])
    IN  /\ pc[i] = "done"
        /\ pc' = [pc EXCEPT ![i] = "idle"]
        /\ last_call' = [last_call EXCEPT ![m] =
                            [kind |-> kind,
                             force_retrain |-> IF kind = "interrupted"
                                               THEN args[i].force_retrain
                                               ELSE FALSE,
                             inputs |-> IF kind = "early" THEN NoInputs
                                        ELSE hashed_inputs(m, args[i])]]
        /\ data_dir' = [data_dir EXCEPT ![m] = settle(@, i)]
        /\ graph_dir' = [graph_dir EXCEPT ![m] = settle(@, i)]
        /\ online_dir' = [online_dir EXCEPT ![m] = settle(@, i)]
        /\ args' = [args EXCEPT ![i] = NoArgs]
        /\ training_info' = [training_info EXCEPT ![i] = NoInfo]
        /\ result' = [result EXCEPT ![i] = NoResult]
        /\ ops' = [ops EXCEPT ![i] = <<>>]
        /\ fs0' = [fs0 EXCEPT ![i] = NoSnapshot]
        /\ build' = [build EXCEPT ![m] = IF @ = Stages THEN @ ELSE <<>>]
        /\ UNCHANGED <<other_vars, env_vars, model_dir, extractor, train_dir, training_info_file,
                       graph_old>>

(***************************************************************************)
(* The sentence sources change between calls                               *)
(***************************************************************************)

Idle == \A i \in Invocations : pc[i] = "idle"

\* One byte of the builtin sentence file of m is overwritten.
EditBuiltin(m, k, b) ==
    /\ Idle
    /\ sentences[m][k] # b
    /\ sentences' = [sentences EXCEPT ![m][k] = b]
    /\ UNCHANGED <<other_vars, custom, fs_vars, inv_vars, hist_vars>>

\* One byte of a custom sentence file is overwritten.
EditCustom(d, n, k, b) ==
    /\ Idle
    /\ custom[d].is_dir
    /\ n \in DOMAIN custom[d].yaml
    /\ custom[d].yaml[n][k] # b
    /\ custom' = [custom EXCEPT ![d].yaml[n][k] = b]
    /\ UNCHANGED <<other_vars, sentences, fs_vars, inv_vars, hist_vars>>

(***************************************************************************)
(* Spec: one caller runs train() calls for one model, one after another    *)
(***************************************************************************)

vars == <<train_vars, fuzzy_vars, registry_vars, lexicon_vars, select_vars>>

YamlNames == RangeOf(YamlOrder)

TrainStep(i) ==
    \/ EnsureModel(i)
    \/ Decide(i)
    \/ Begin(i)
    \/ Intents(i)
    \/ Clean(i)
    \/ Lexicon(i)
    \/ PrepareLang(i)
    \/ Arpa(i)
    \/ Fuzzy(i)
    \/ Mkgraph(i)
    \/ Online(i)
    \/ OpenRecord(i)
    \/ DumpRecord(i)
    \/ \E kind \in {"failed", "cancelled"} : Raise(i, kind)
    \/ Return(i)

Edit(m) ==
    \/ \E k \in 1..BuiltinLen, b \in Bytes : EditBuiltin(m, k, b)
    \/ \E d \in DirPaths, n \in YamlNames, k \in 1..CustomLen, b \in Bytes :
           EditCustom(d, n, k, b)

Next ==
    \/ \E v \in Versions, t \in ThingsHashes, f \in BOOLEAN : Call(1, "m1", v, t, f)
    \/ TrainStep(1)
    \/ Edit("m1")

Spec == Init /\ [][Next]_vars

\* SpecCrash: the same, and the process may be killed at any step.
NextCrash ==
    \/ Next
    \/ Crash(1)

SpecCrash == Init /\ [][NextCrash]_vars

(***************************************************************************)
(* Properties of the build cache and of train()                            *)
(***************************************************************************)

PipelinePcs == {"begin", "intents", "clean", "lexicon", "prepare_lang", "arpa",
                "fuzzy", "mkgraph", "online", "write_record", "dump"}

\* The invocation has reached its cache decision (lines 56-62): it is in
\* the build, or it ended at the decision or later.
decided(i) ==
    \/ pc[i] \in PipelinePcs
    \/ pc[i] = "done" /\ result[i].stage \notin {"download_model", "decide"}

\* The invocation is running the build, or has ended in or after it.
in_pipeline(i) ==
    \/ pc[i] \in PipelinePcs
    \/ /\ pc[i] = "done"
       /\ result[i].kind \in {"trained", "raised", "crashed"}
       /\ result[i].stage \notin {"download_model", "decide", "json.load"}

stages_in(log_) == SelectSeq(log_, LAMBDA o : o \in RangeOf(Stages))

\* The skip condition of the claim, on the record as it was when train()
\* was called and the fingerprint this call computed.
skip_condition(i) ==
    /\ ~args[i].force_retrain
    /\ fs0[i].training_info_file.kind # "absent"
    /\ fs0[i].training_info_file.info = training_info[i]

\* C1: train() skips (returns without running any stage) if and only if
\* force_retrain is false, a record file exists and its three fields equal
\* the fingerprint computed in this call; in every other case it runs the
\* pipeline.
C1_SkipIffRecordMatches ==
    \A i \in Invocations :
        decided(i) =>
            /\ (result[i].kind = "skipped") <=> skip_condition(i)
            /\ result[i].kind = "skipped" =>
                   (pc[i] = "done" /\ stages_in(ops[i]) = <<>>)
            /\ (~skip_condition(i)) => in_pipeline(i)

C1_Witness ==
    /\ pc[1] = "done"
    /\ result[1].kind = "skipped"
    /\ last_call["m1"].kind = "trained"

\* The call is made with force_retrain false right after a call that
\* completed successfully, with the same version, things hash and hashed
\* prefixes of the sentence files.
unchanged_since_success(i) ==
    LET m == model_of(i)
    IN  /\ pc[i] # "idle"
        /\ ~args[i].force_retrain
        /\ last_call[m].kind \in {"trained", "skipped"}
        /\ last_call[m].inputs = hashed_inputs(m, args[i])

\* C2: after a successful call, a second call with force_retrain false and
\* unchanged hashed inputs skips and performs no download, write, deletion
\* or stage: the file system of the model is as it was at the call.
C2_Idempotent ==
    \A i \in Invocations :
        unchanged_since_success(i) =>
            /\ ops[i] = <<>>
            /\ snapshot(model_of(i)) = fs0[i]
            /\ decided(i) => (pc[i] = "done" /\ result[i].kind = "skipped")

\* The second call skipped although a byte beyond the chunk was changed.
C2_Witness ==
    /\ unchanged_since_success(1)
    /\ pc[1] = "done"
    /\ result[1].kind = "skipped"
    /\ sentences["m1"][BuiltinLen] = 1

\* C3: after a successful call, a change of a byte within the hashed prefix
\* of the builtin or of a selected custom sentence file, of the things hash
\* or of the model version makes the next call not skip.
C3_Invalidation ==
    \A i \in Invocations :
        LET m == model_of(i)
        IN  ( /\ decided(i)
              /\ last_call[m].kind \in {"trained", "skipped"}
              /\ last_call[m].inputs # hashed_inputs(m, args[i]) )
            => (result[i].kind # "skipped" /\ in_pipeline(i))

\* A call without force after a successful build, where only the prefix of
\* the custom sentence file differs: it rebuilt.
C3_Witness ==
    LET now == hashed_inputs("m1", args[1])
    IN  /\ pc[1] = "done"
        /\ ~args[1].force_retrain
        /\ last_call["m1"].kind = "trained"
        /\ last_call["m1"].inputs.version = now.version
        /\ last_call["m1"].inputs.things_hash = now.things_hash
        /\ last_call["m1"].inputs.chunks[1] = now.chunks[1]
        /\ last_call["m1"].inputs.chunks[2] # now.chunks[2]
        /\ result[1].kind = "trained"

\* The call ended with an exception of a step, before or in the build.
raised(i) == pc[i] = "done" /\ result[i].kind = "raised"

\* C4: a record file is on disk only if the most recent non-skipped build
\* ran every stage to completion; a call in which a stage fails writes no
\* record and runs no later stage.
C4_RecordAtomicity ==
    /\ \A m \in ModelIds :
           training_info_file[m].kind # "absent" => build[m] = Stages
    /\ \A i \in Invocations :
           raised(i) =>
               LET m == model_of(i)
                   stage == result[i].stage
               IN  /\ "open training_info" \notin RangeOf(ops[i])
                   /\ "dump training_info" \notin RangeOf(ops[i])
                   /\ training_info_file[m] =
                          (IF stage = "download_model"
                           THEN fs0[i].training_info_file ELSE NoRecord)
                   /\ stage # "download_model" =>
                          stages_in(ops[i]) =
                              build[m] \o (IF stage \in RangeOf(Stages)
                                           THEN <<stage>> ELSE <<>>)

\* mkgraph failed in a rebuild that replaced an earlier successful build.
C4_Witness ==
    /\ raised(1)
    /\ result[1].stage = "_mkgraph"
    /\ fs0[1].training_info_file.kind = "json"
    /\ training_info_file["m1"].kind = "absent"

\* The call follows a build that was interrupted after it began, and has
\* the same force_retrain, version, things hash and hashed prefixes.
repeats_interrupted(i) ==
    LET m == model_of(i)
    IN  /\ pc[i] # "idle"
        /\ last_call[m].kind = "interrupted"
        /\ last_call[m].force_retrain = args[i].force_retrain
        /\ last_call[m].inputs = hashed_inputs(m, args[i])

\* C5: after a non-skipped build was interrupted (a stage failed, the task
\* was cancelled, or the process was killed, also while the record file was
\* being written), the next call with the same inputs neither skips nor
\* fails on what was left behind: it rebuilds.
C5_RebuildAfterInterrupt ==
    \A i \in Invocations :
        (repeats_interrupted(i) /\ decided(i)) =>
            /\ result[i].kind # "skipped"
            /\ ~(result[i].kind = "raised" /\ result[i].stage = "json.load")
            /\ in_pipeline(i)

\* The earlier call left a successful build behind: a record, a complete
\* data directory and a complete graph directory.
prior_success(i) ==
    /\ fs0[i].training_info_file.kind = "json"
    /\ fs0[i].data_dir.state = "complete"
    /\ fs0[i].graph_dir.state = "complete"

\* The call was not skipped and a step of the build raised.
build_failed(i) ==
    /\ raised(i)
    /\ result[i].stage \notin {"download_model", "json.load"}

\* C6 as stated: a failing build leaves the record, the data directory and
\* the graph directory of the prior successful build as they were.
C6_PriorArtifactsUntouched ==
    \A i \in Invocations :
        (build_failed(i) /\ prior_success(i)) =>
            LET m == model_of(i)
            IN  /\ training_info_file[m] = fs0[i].training_info_file
                /\ data_dir[m] = fs0[i].data_dir
                /\ graph_dir[m] = fs0[i].graph_dir

BeforeMkgraph == {"_create_intents", "rmtree graph_*", "_create_lexicon",
                  "_prepare_lang", "_create_arpa", "_create_fuzzy_fst"}

\* C6 (amended): when a build fails that replaces a prior successful build,
\* the prior record has been deleted and no record is on disk, so nothing
\* half-built is presented as current; the prior data directory is still
\* there only if grammar assembly failed, from the cleanup on it is gone;
\* the prior graph directory is untouched by a failure before mkgraph.
C6_FailedBuildLeavesNoRecord ==
    \A i \in Invocations :
        (build_failed(i) /\ prior_success(i)) =>
            LET m == model_of(i)
            IN  /\ training_info_file[m] = NoRecord
                /\ (data_dir[m] = fs0[i].data_dir) <=>
                       (result[i].stage = "_create_intents")
                /\ result[i].stage \in BeforeMkgraph =>
                       graph_dir[m] = fs0[i].graph_dir

\* prepare_lang failed in a rebuild over a prior successful build.
C6_Witness ==
    /\ build_failed(1)
    /\ prior_success(1)
    /\ result[1].stage = "_prepare_lang"
    /\ data_dir["m1"].state = "partial"

(***************************************************************************)
(* _create_fuzzy_fst (train.py 400-448): the text transformation           *)
(***************************************************************************)

\* A line is a sequence of characters; a state or a word is one too.
Whitespace == {" ", "\t", "\n"}

EPS == <<"<", "e", "p", "s", ">">>

RECURSIVE lstrip(_)
lstrip(line) ==
    IF line = <<>> THEN line
    ELSE IF Head(line) \in Whitespace THEN lstrip(Tail(line)) ELSE line

RECURSIVE rstrip(_)
rstrip(line) ==
    IF line = <<>> THEN line
    ELSE IF line[Len(line)] \in Whitespace
         THEN rstrip(SubSeq(line, 1, Len(line) - 1))
         ELSE line

\* Line 424: line.strip().
strip(line) == rstrip(lstrip(line))

\* str.split(): the maximal runs of characters that are not whitespace.
RECURSIVE split(_)
split(line) ==
    LET rest == lstrip(line)
        gaps == {k \in 1..Len(rest) : rest[k] \in Whitespace}
        end == IF gaps = {} THEN Len(rest)
               ELSE (CHOOSE k \in gaps : \A j \in gaps : k <= j) - 1
    IN  IF rest = <<>> THEN <<>>
        ELSE <<SubSeq(rest, 1, end)>> \o split(SubSeq(rest, end + 1, Len(rest)))

\* Line 431: line.split(maxsplit=1)[0] of a stripped, non-empty line.
first_field(line) == split(line)[1]

\* Mutant of should_copy: only lines with more than one field are copied.
should_copy_arcs(line) == Len(split(line)) > 1

\* Lines 425-429: "if not line: continue", otherwise the line is printed.
should_copy(line) == line # <<>>

\* Mutant of collect: the destination of an arc is collected as well.
collect_with_destination(seen, line) ==
    seen \cup {split(line)[k] : k \in 1..(IF Len(split(line)) > 2 THEN 2 ELSE 1)}

\* Lines 431-435: the first field of the line joins the set.
collect(seen, line) == seen \cup {first_field(line)}

\* Mutant of is_meta: only "<" marks a meta word.
is_meta_angle_only(word) == word[1] = "<"

\* Line 443: word[0] in ("<", "_").
is_meta(word) == word[1] \in {"<", "_"}

\* print(a, b, ...): the arguments separated by single blanks.
RECURSIVE spaced(_)
spaced(fields) ==
    IF Len(fields) = 1 THEN fields[1]
    ELSE fields[1] \o <<" ">> \o spaced(Tail(fields))

\* Line 440: print(state, state, EPS, EPS, 0.0).
eps_loop(state) == spaced(<<state, state, EPS, EPS, <<"0", ".", "0">>>>)

\* Line 448: print(state, state, word, EPS, 1.0).
word_loop(state, word) == spaced(<<state, state, word, EPS, <<"1", ".", "0">>>>)

\* Lines 442-448: the inner loop over fst.words, in its iteration order.
RECURSIVE word_loops(_, _)
word_loops(state, order) ==
    IF order = <<>> THEN <<>>
    ELSE (IF is_meta(Head(order)) THEN <<>> ELSE <<word_loop(state, Head(order))>>)
         \o word_loops(state, Tail(order))

\* Lines 423-435: one pass of the loop over the lines of text_fst.
ReadLine ==
    /\ fz_pc = "copy"
    /\ line_no < Len(text_fst)
    /\ line_no' = line_no + 1
    /\ LET line == strip(text_fst[line_no + 1])
       IN  IF should_copy(line)
           THEN /\ text_fuzzy_fst' = Append(text_fuzzy_fst, line)
                /\ states' = collect(states, line)
           ELSE UNCHANGED <<text_fuzzy_fst, states>>
    /\ UNCHANGED <<text_fst, words, word_order, fz_pc, state_order, loop_no>>
    /\ UNCHANGED <<train_vars, registry_vars, lexicon_vars, select_vars>>

\* The orders in which iterating a set can yield its elements.
Orders(S) ==
    {o \in [1..Cardinality(S) -> S] : \A j, k \in 1..Cardinality(S) : o[j] = o[k] => j = k}

\* Line 438: the file is exhausted, "for state in states" begins; a set
\* of str is iterated in an order the program does not choose.
EndOfFile ==
    /\ fz_pc = "copy"
    /\ line_no = Len(text_fst)
    /\ fz_pc' = "loops"
    /\ \E order \in Orders(states) : state_order' = order
    /\ UNCHANGED <<text_fst, words, word_order, line_no, states, loop_no, text_fuzzy_fst>>
    /\ UNCHANGED <<train_vars, registry_vars, lexicon_vars, select_vars>>

\* Lines 438-448: one pass of the loop over states.
SelfLoops ==
    /\ fz_pc = "loops"
    /\ loop_no < Len(state_order)
    /\ loop_no' = loop_no + 1
    /\ LET state == state_order[loop_no + 1]
       IN  text_fuzzy_fst' = text_fuzzy_fst \o <<eps_loop(state)>>
                                 \o word_loops(state, word_order)
    /\ UNCHANGED <<text_fst, words, word_order, fz_pc, line_no, states, state_order>>
    /\ UNCHANGED <<train_vars, registry_vars, lexicon_vars, select_vars>>

\* Both files are closed (the with block ends before line 450).
CloseFiles ==
    /\ fz_pc = "loops"
    /\ loop_no = Len(state_order)
    /\ fz_pc' = "done"
    /\ UNCHANGED <<text_fst, words, word_order, line_no, states, state_order, loop_no,
                   text_fuzzy_fst>>
    /\ UNCHANGED <<train_vars, registry_vars, lexicon_vars, select_vars>>

\* Lines of a base FST text: arcs "src dst ilabel olabel [weight]", final
\* states "state [weight]", with and without padding, and blank lines.
ArcA == <<"0", " ", "1", " ", "a", " ", "a", "\n">>
ArcB == <<" ", "0", "\t", "1", " ", "b", " ", "b", " ", "0", ".", "5", " ", "\n">>
ArcC == <<"1", " ", "2", " ", "a", " ", "a", "\n">>
FinalD == <<"2", "\n">>
BlankF == <<" ", "\t", "\n">>

Lines == {ArcA, ArcB, ArcC, FinalD, BlankF}

Texts == UNION {[1..n -> Lines] : n \in 0..MaxLines}

Wa == <<"a">>
Wb == <<"b">>
Wunk == <<"<", "u", "n", "k", ">">>
Wmeta == <<"_", "x">>

Vocabularies == {{}, {Wa, Wunk}, {Wa, Wb, Wmeta}}

\* SpecFuzzy: _create_fuzzy_fst on every base text and vocabulary.
InitFuzzy ==
    /\ TrainInit(CHOOSE disk \in InitialDisks : disk.graph_old = "none")
    /\ RegistryInit
    /\ LexiconOff
    /\ SelectOff
    /\ \E text \in Texts, ws \in Vocabularies :
           \E order \in Orders(ws) : FuzzyInit(text, ws, order)

NextFuzzy ==
    \/ ReadLine
    \/ EndOfFile
    \/ SelfLoops
    \/ CloseFiles

SpecFuzzy == InitFuzzy /\ [][NextFuzzy]_vars

(***************************************************************************)
(* Properties of _create_fuzzy_fst                                         *)
(***************************************************************************)

nonblank(line) == split(line) # <<>>

\* The non-blank lines of the base text read so far, and all of them.
base_read == SelectSeq(SubSeq(text_fst, 1, line_no), nonblank)
base_lines == SelectSeq(text_fst, nonblank)

\* The lines of the fuzzy text after the copied ones.
added_lines == SubSeq(text_fuzzy_fst, Len(base_lines) + 1, Len(text_fuzzy_fst))

\* The fields of each non-blank base line.
base_fields == LET base == base_lines IN [k \in 1..Len(base) |-> split(base[k])]

\* The line has the shape of a self loop written by the function.
is_self_loop(line) ==
    LET f == split(line)
    IN  /\ Len(f) = 5
        /\ f[1] = f[2]
        /\ f[4] = EPS
        /\ f[5] \in {<<"0", ".", "0">>, <<"1", ".", "0">>}

\* The states that are the source of a transition, that are a destination,
\* and that are the first field of any line (arc or final state).
Sources ==
    LET fs == base_fields IN {fs[k][1] : k \in {j \in DOMAIN fs : Len(fs[j]) > 2}}
Destinations ==
    LET fs == base_fields IN {fs[k][2] : k \in {j \in DOMAIN fs : Len(fs[j]) > 2}}
FirstFields ==
    LET fs == base_fields IN {fs[k][1] : k \in DOMAIN fs}

\* The fields of each added line.
added_fields == LET added == added_lines IN [k \in 1..Len(added) |-> split(added[k])]

\* How many of the lines with the fields fs have exactly these fields.
count(fs, fields) == Cardinality({k \in DOMAIN fs : fs[k] = fields})

\* C8: every non-blank line of the base text is in the fuzzy text with its
\* fields unchanged, in the same order and as many times as in the base;
\* nothing is modified or removed, and every added self loop comes after
\* the last copied line.
C8_FuzzySuperset ==
    LET base == base_read
        added == added_lines
    IN  /\ Len(text_fuzzy_fst) >= Len(base)
        /\ \A k \in 1..Len(base) : split(text_fuzzy_fst[k]) = split(base[k])
        /\ fz_pc = "copy" => Len(text_fuzzy_fst) = Len(base)
        /\ fz_pc # "copy" =>
               /\ line_no = Len(text_fst)
               /\ \A k \in 1..Len(added) : is_self_loop(added[k])

\* A text with a padded arc, a blank line and a final-state line was
\* copied and self loops were added.
C8_Witness ==
    /\ fz_pc = "done"
    /\ text_fst = <<ArcB, BlankF, FinalD>>
    /\ Len(text_fuzzy_fst) > 2
    /\ text_fuzzy_fst[1] = strip(ArcB)

\* C9: for every state that is the source of a transition of the base, the
\* added lines hold exactly one <eps> self loop of weight 0 and, for each
\* word of fst.words not starting with "<" or "_", exactly one self loop of
\* weight 1.0; no self loop is added for a word starting with "<" or "_".
C9_SelfLoopsComplete ==
    fz_pc = "done" =>
        LET fs == added_fields
        IN  /\ \A s \in Sources :
                   /\ count(fs, <<s, s, EPS, EPS, <<"0", ".", "0">>>>) = 1
                   /\ \A w \in words :
                          count(fs, <<s, s, w, EPS, <<"1", ".", "0">>>>) =
                              (IF w[1] \in {"<", "_"} THEN 0 ELSE 1)
            /\ \A k \in DOMAIN fs :
                   fs[k][5] = <<"1", ".", "0">> => fs[k][3][1] \notin {"<", "_"}

\* Two source states, one of them on two arcs, with a vocabulary of two
\* plain words and a meta word.
C9_Witness ==
    /\ fz_pc = "done"
    /\ text_fst = <<ArcA, ArcB, ArcC>>
    /\ words = {Wa, Wb, Wmeta}
    /\ Len(added_lines) = 6

Finished == {"succeeded", "failed"}

\* Mutant of acquire_succeeds: the lock never makes anyone wait.
acquire_succeeds_always(lock) == TRUE

\* asyncio.Lock (const.py 110): acquire() returns at once only while the
\* lock is unlocked, otherwise the caller waits.
acquire_succeeds(lock) == lock = Unlocked

\* The requests between their arrival and their registration.
registering == {r \in Requests : requests[r].pc \in {"lock", "locked", "checked"}}

unused_tasks == {t \in TaskIds : train_tasks[t].state = "new"}

\* A request to train model m arrives (while a task is left to give it).
Arrive(r, m) ==
    /\ requests[r].pc = "idle"
    /\ Cardinality(registering) < Cardinality(unused_tasks)
    /\ requests' = [requests EXCEPT ![r] = [NoRequest EXCEPT !.pc = "lock", !.model = m]]
    /\ UNCHANGED <<model_train_tasks, model_train_tasks_lock, train_tasks>>
    /\ UNCHANGED <<train_vars, fuzzy_vars, lexicon_vars, select_vars>>

\* The request enters the critical section.
AcquireLock(r) ==
    /\ requests[r].pc = "lock"
    /\ acquire_succeeds(model_train_tasks_lock)
    /\ model_train_tasks_lock' = r
    /\ requests' = [requests EXCEPT ![r].pc = "locked"]
    /\ UNCHANGED <<model_train_tasks, train_tasks>>
    /\ UNCHANGED <<train_vars, fuzzy_vars, lexicon_vars, select_vars>>

\* Check: is a task registered for the model id?
Check(r) ==
    /\ requests[r].pc = "locked"
    /\ requests' = [requests EXCEPT ![r].pc = "checked",
                                    ![r].seen = model_train_tasks[requests[r].model]]
    /\ UNCHANGED <<model_train_tasks, model_train_tasks_lock, train_tasks>>
    /\ UNCHANGED <<train_vars, fuzzy_vars, lexicon_vars, select_vars>>

\* Register: the first caller creates the task and registers it, a later
\* caller attaches to the task it found; the lock is released.
Register(r) ==
    LET m == requests[r].model
        t == CHOOSE u \in unused_tasks : \A v \in unused_tasks : u <= v
    IN  /\ requests[r].pc = "checked"
        /\ IF requests[r].seen = NoTask
           THEN /\ train_tasks' = [train_tasks EXCEPT ![t] = [state |-> "running",
                                                              model |-> m,
                                                              removed |-> FALSE]]
                /\ model_train_tasks' = [model_train_tasks EXCEPT ![m] = t]
                /\ requests' = [requests EXCEPT ![r].pc = "await", ![r].task = t]
           ELSE /\ requests' = [requests EXCEPT ![r].pc = "await",
                                                ![r].task = requests[r].seen]
                /\ UNCHANGED <<train_tasks, model_train_tasks>>
        /\ model_train_tasks_lock' = Unlocked
        /\ UNCHANGED <<train_vars, fuzzy_vars, lexicon_vars, select_vars>>

\* The build of the task ends, outside the lock, with success or failure.
FinishTask(t, outcome) ==
    /\ train_tasks[t].state = "running"
    /\ train_tasks' = [train_tasks EXCEPT ![t].state = outcome]
    /\ UNCHANGED <<model_train_tasks, model_train_tasks_lock, requests>>
    /\ UNCHANGED <<train_vars, fuzzy_vars, lexicon_vars, select_vars>>

\* Removal on completion, under the lock (taken and released in one step).
RemoveEntry(t) ==
    /\ train_tasks[t].state \in Finished
    /\ ~train_tasks[t].removed
    /\ acquire_succeeds(model_train_tasks_lock)
    /\ model_train_tasks' = [model_train_tasks EXCEPT ![train_tasks[t].model] = NoTask]
    /\ train_tasks' = [train_tasks EXCEPT ![t].removed = TRUE]
    /\ UNCHANGED <<model_train_tasks_lock, requests>>
    /\ UNCHANGED <<train_vars, fuzzy_vars, lexicon_vars, select_vars>>

\* The awaited task is done: the request observes its outcome.
Observe(r) ==
    /\ requests[r].pc = "await"
    /\ train_tasks[requests[r].task].state \in Finished
    /\ requests' = [requests EXCEPT ![r].pc = "done",
                                    ![r].outcome = train_tasks[requests[r].task].state]
    /\ UNCHANGED <<model_train_tasks, model_train_tasks_lock, train_tasks>>
    /\ UNCHANGED <<train_vars, fuzzy_vars, lexicon_vars, select_vars>>

\* The request is answered.
Leave(r) ==
    /\ requests[r].pc = "done"
    /\ requests' = [requests EXCEPT ![r] = NoRequest]
    /\ UNCHANGED <<model_train_tasks, model_train_tasks_lock, train_tasks>>
    /\ UNCHANGED <<train_vars, fuzzy_vars, lexicon_vars, select_vars>>

InitRegistry ==
    /\ TrainInit(CHOOSE disk \in InitialDisks : disk.graph_old = "none")
    /\ FuzzyInit(<<>>, {}, <<>>)
    /\ RegistryInit
    /\ LexiconOff
    /\ SelectOff

NextRegistry ==
    \/ \E r \in Requests, m \in ModelIds : Arrive(r, m)
    \/ \E r \in Requests : AcquireLock(r)
    \/ \E r \in Requests : Check(r)
    \/ \E r \in Requests : Register(r)
    \/ \E t \in TaskIds, outcome \in Finished : FinishTask(t, outcome)
    \/ \E t \in TaskIds : RemoveEntry(t)
    \/ \E r \in Requests : Observe(r)
    \/ \E r \in Requests : Leave(r)

SpecRegistry == InitRegistry /\ [][NextRegistry]_vars

\* The builds in flight for model m.
in_flight(m) ==
    {t \in TaskIds : train_tasks[t].state = "running" /\ train_tasks[t].model = m}

\* C7: at every moment at most one build per model id is in flight, and it
\* is the registered one; a request that finds a task registered for its
\* model id awaits that task and starts none, so concurrent requests for
\* one id share one build and observe its outcome; the entry of a task is
\* gone once it was removed on completion, whatever the outcome.
C7_SingleFlight ==
    /\ \A m \in ModelIds :
           /\ Cardinality(in_flight(m)) <= 1
           /\ \A t \in in_flight(m) : model_train_tasks[m] = t
           /\ model_train_tasks[m] # NoTask =>
                  /\ train_tasks[model_train_tasks[m]].model = m
                  /\ train_tasks[model_train_tasks[m]].state # "new"
                  /\ ~train_tasks[model_train_tasks[m]].removed
    /\ \A r \in Requests :
           requests[r].pc \in {"await", "done"} =>
               /\ train_tasks[requests[r].task].model = requests[r].model
               /\ train_tasks[requests[r].task].state # "new"
               /\ requests[r].seen # NoTask => requests[r].task = requests[r].seen
               /\ requests[r].pc = "done" =>
                      requests[r].outcome = train_tasks[requests[r].task].state
    /\ \A r, q \in Requests :
           ( /\ requests[r].pc = "await"
             /\ requests[q].pc = "await"
             /\ requests[r].model = requests[q].model
             /\ train_tasks[requests[r].task].state = "running"
             /\ train_tasks[requests[q].task].state = "running" )
           => requests[r].task = requests[q].task

\* Two requests for m1 shared one task, both observed its failure, and
\* the entry is removed; no second task was created.
C7_Witness ==
    /\ requests[1].pc = "done"
    /\ requests[2].pc = "done"
    /\ requests[1].model = "m1"
    /\ requests[2].model = "m1"
    /\ requests[1].task = requests[2].task
    /\ requests[1].outcome = "failed"
    /\ requests[2].outcome = "failed"
    /\ train_tasks[1].removed
    /\ model_train_tasks["m1"] = NoTask
    /\ train_tasks[2].state = "new"

\* ---------------------------------------------------------------------
\* _create_lexicon (train.py 217-311): the pronunciation dictionary.
\* Words, phones and lines are sequences of characters, as in the fuzzy
\* FST section; a file is the sequence of the lines printed to it.
\* ---------------------------------------------------------------------

UNK == Wunk
SIL == <<"S", "I", "L">>
SPN == <<"S", "P", "N">>

\* The code points of the characters that occur in the words.
CodePoint(c) ==
    CASE c = "<" -> 60
      [] c = ">" -> 62
      [] c = "_" -> 95
      [] c = "a" -> 97
      [] c = "b" -> 98
      [] c = "k" -> 107
      [] c = "n" -> 110
      [] c = "u" -> 117
      [] c = "x" -> 120
      [] c = "y" -> 121

\* str.__lt__: lexicographic by code point, a proper prefix comes first.
RECURSIVE str_less(_, _)
str_less(a, b) ==
    IF b = <<>> THEN FALSE
    ELSE IF a = <<>> THEN TRUE
    ELSE IF Head(a) # Head(b) THEN CodePoint(Head(a)) < CodePoint(Head(b))
    ELSE str_less(Tail(a), Tail(b))

\* Lines 240 and 263: sorted(set of str).
sorted(S) ==
    CHOOSE o \in Orders(S) : \A j, k \in 1..Cardinality(S) : j < k => str_less(o[j], o[k])

\* " ".join(parts)
join(parts) == IF parts = <<>> THEN <<>> ELSE spaced(parts)

\* print(a, b, file=f) without the newline: the line the file gets.
printed(a, b) == a \o <<" ">> \o b

\* Mutant of skips: <unk> is treated as any other word.
skips_nothing(word) == FALSE

\* Lines 241-242: if word in (UNK,): continue.
skips(word) == word = UNK

\* Line 245: lexicon.lookup(word), the pronunciations in store order.
lookup(st, word) == st[word]

\* Lines 245-248: one line per pronunciation of the word.
found_lines(st, word) ==
    [k \in 1..Len(lookup(st, word)) |-> printed(word, join(lookup(st, word)[k]))]

\* Lines 240-251 over the sorted words ws: the lines printed.
RECURSIVE lookup_lines(_, _)
lookup_lines(st, ws) ==
    IF ws = <<>> THEN <<>>
    ELSE (IF skips(Head(ws)) THEN <<>> ELSE found_lines(st, Head(ws)))
         \o lookup_lines(st, Tail(ws))

\* Lines 240-245: the words lexicon.lookup is called with, in order.
looked_up(ws) == SelectSeq(ws, LAMBDA w : ~skips(w))

\* Mutant of missing: no word is recorded as missing.
missing_none(st, ws) == {}

\* Lines 250-251: the words with no pronunciation in the store.
missing(st, ws) == {w \in ws : ~skips(w) /\ lookup(st, w) = <<>>}

\* Lines 226-254: the dictionary is opened for writing, every word but
\* <unk> is looked up in sorted order, and the report of an earlier build
\* is unlinked.
LookupWords ==
    /\ pc[1] = "lexicon"
    /\ lx_pc = "off"
    /\ lookups' = looked_up(sorted(words))
    /\ dictionary_file' = FileWith(lookup_lines(store, sorted(words)))
    /\ missing_words' = missing(store, words)
    /\ report' = NoFile
    /\ lx_pc' = IF missing_words' # {} THEN "g2p" ELSE "reserved"
    /\ UNCHANGED <<select_vars, train_vars, fuzzy_vars, registry_vars, output_words, store, spn_phone,
                   g2p_calls, phonetisaurus_output, out_no>>

\* What phonetisaurus prints for a word: word, score, phonemes, separated
\* by tabs; the phonemes are empty when it predicts none.
P == <<"p">>
Q == <<"q">>
Score == <<"7">>
predicted_phonemes(w) == IF Len(w) = 1 /\ w[1] = "b" THEN <<Q>> ELSE <<P, Q>>
Predicted(w) == w \o <<"\t">> \o Score \o <<"\t">> \o join(predicted_phonemes(w))
Unpredicted(w) == w \o <<"\t">> \o Score \o <<"\t">>
Bare(w) == w
Blank == <<" ">>

MaxG2PLines == 2

\* The outputs phonetisaurus may produce for a word list: any lines about
\* the listed words, and blank lines, in any order, with repeats and gaps.
G2PLines(wordlist) ==
    {Blank} \cup UNION {{Predicted(w), Unpredicted(w), Bare(w)} : w \in wordlist}
Outputs(wordlist) == UNION {[1..n -> G2PLines(wordlist)] : n \in 0..MaxG2PLines}

\* Mutant of async_run_raises: a failed process yields empty output.
async_run_swallows(ok) == FALSE

\* tools.async_run raises when the process does not exit with 0.
async_run_raises(ok) == ~ok

\* Lines 256-280: the report is opened for writing, the missing words are
\* listed in sorted order and phonetisaurus is awaited: it returns its
\* output lines, or async_run raises and the with blocks close the files.
RunG2P ==
    /\ pc[1] = "lexicon"
    /\ lx_pc = "g2p"
    /\ report' = FileWith(<<>>)
    /\ \E ok \in BOOLEAN :
          /\ g2p_calls' = Append(g2p_calls, [wordlist |-> sorted(missing_words), ok |-> ok])
          /\ IF async_run_raises(ok)
             THEN /\ lx_pc' = "raised"
                  /\ UNCHANGED phonetisaurus_output
             ELSE /\ lx_pc' = "parse"
                  /\ \E out \in Outputs(missing_words) :
                        phonetisaurus_output' = IF ok THEN out ELSE <<>>
    /\ UNCHANGED <<select_vars, train_vars, fuzzy_vars, registry_vars, output_words, store, spn_phone,
                   lookups, dictionary_file, missing_words, out_no>>

\* Mutant of is_unpredicted: a line of one token counts as well.
is_unpredicted_or_bare(line_parts) == Len(line_parts) <= 2

\* Line 285: len(line_parts) == 2.
is_unpredicted(line_parts) == Len(line_parts) = 2

\* Line 293: len(line_parts) < 3.
is_short(line_parts) == Len(line_parts) < 3

\* Lines 282-304 for one line: what is printed to the dictionary.
dictionary_lines(line) ==
    LET line_parts == split(strip(line))
    IN  IF strip(line) = <<>> THEN <<>>
        ELSE IF is_unpredicted(line_parts) THEN <<printed(line_parts[1], SIL)>>
        ELSE IF is_short(line_parts) THEN <<>>
        ELSE <<printed(line_parts[1], join(SubSeq(line_parts, 3, Len(line_parts))))>>

\* Lines 282-304 for one line: what is printed to the report.
report_lines(line) ==
    LET line_parts == split(strip(line))
    IN  IF strip(line) = <<>> THEN <<>>
        ELSE IF is_unpredicted(line_parts) THEN <<>>
        ELSE IF is_short(line_parts) THEN <<>>
        ELSE <<printed(line_parts[1], join(SubSeq(line_parts, 3, Len(line_parts))))>>

\* Lines 281-304: one iteration of the loop over phonetisaurus_output.
ParseLine ==
    /\ pc[1] = "lexicon"
    /\ lx_pc = "parse"
    /\ out_no < Len(phonetisaurus_output)
    /\ out_no' = out_no + 1
    /\ dictionary_file' = FileWith(dictionary_file.lines
                                   \o dictionary_lines(phonetisaurus_output[out_no + 1]))
    /\ report' = FileWith(report.lines \o report_lines(phonetisaurus_output[out_no + 1]))
    /\ UNCHANGED <<select_vars, train_vars, fuzzy_vars, registry_vars, lx_pc, output_words, store,
                   spn_phone, lookups, missing_words, g2p_calls, phonetisaurus_output>>

\* Line 281: the output is exhausted, the report is closed.
EndOfOutput ==
    /\ pc[1] = "lexicon"
    /\ lx_pc = "parse"
    /\ out_no = Len(phonetisaurus_output)
    /\ lx_pc' = "reserved"
    /\ UNCHANGED <<select_vars, train_vars, fuzzy_vars, registry_vars, output_words, store, spn_phone,
                   lookups, dictionary_file, missing_words, report, g2p_calls,
                   phonetisaurus_output, out_no>>

\* Line 309: fst.output_words - fst.words.
meta_labels == output_words \ words

\* Lines 310-311 for the labels in the order the set yields them.
meta_lines(order) == [k \in 1..Len(order) |-> printed(order[k], SIL)]

\* Lines 306-311: the <unk> entry, then one entry per meta label, in the
\* order the set yields them; the dictionary is closed.
Reserved ==
    /\ pc[1] = "lexicon"
    /\ lx_pc = "reserved"
    /\ \E order \in Orders(meta_labels) :
          dictionary_file' = FileWith(dictionary_file.lines
                                      \o <<printed(UNK, spn_phone)>> \o meta_lines(order))
    /\ lx_pc' = "returned"
    /\ UNCHANGED <<select_vars, train_vars, fuzzy_vars, registry_vars, output_words, store, spn_phone,
                   lookups, missing_words, report, g2p_calls, phonetisaurus_output, out_no>>

\* Lines 109-111: _create_lexicon has returned to train().
LexiconReturns == lx_pc = "returned" /\ Lexicon(1)

\* Lines 109-111: the exception of _create_lexicon leaves train().
LexiconRaises == lx_pc = "raised" /\ Raise(1, "failed")

\* The words, stores and earlier reports _create_lexicon is run on.
Wab == <<"a", "b">>
Wmeta2 == <<"_", "y">>
AllWords == {Wa, Wb, Wab, Wunk, Wmeta, Wmeta2}
EmptyStore == [w \in AllWords |-> <<>>]
HomographStore == [EmptyStore EXCEPT ![Wa] = <<<<Q>>, <<P>>, <<Q>>>>]
FullStore == [EmptyStore EXCEPT ![Wa] = <<<<P, Q>>>>, ![Wb] = <<<<Q>>>>, ![Wunk] = <<<<P>>>>]
StaleReport == FileWith(<<printed(Wb, P)>>)
NoiseNSN == <<"N", "S", "N">>

LexiconCases ==
    { [words |-> {Wa, Wb, Wunk}, output_words |-> {Wa, Wmeta}, store |-> EmptyStore,
       spn_phone |-> SPN, report |-> NoFile],
      [words |-> {Wb, Wab, Wa, Wunk}, output_words |-> {Wmeta, Wmeta2, Wb},
       store |-> HomographStore,
       spn_phone |-> NoiseNSN, report |-> StaleReport],
      [words |-> {Wa, Wb, Wunk}, output_words |-> {}, store |-> FullStore,
       spn_phone |-> SPN, report |-> StaleReport],
      [words |-> {}, output_words |-> {}, store |-> EmptyStore,
       spn_phone |-> SPN, report |-> NoFile],
      [words |-> {Wa, Wunk}, output_words |-> {Wmeta}, store |-> EmptyStore,
       spn_phone |-> NoiseNSN, report |-> NoFile] }

\* SpecLexicon: one call of train() on a fresh disk, with _create_lexicon
\* run step by step on every case.
InitLexicon ==
    /\ TrainInit(CHOOSE disk \in InitialDisks : disk.graph_old = "none")
    /\ RegistryInit
    /\ \E c \in LexiconCases :
          /\ FuzzyInit(<<>>, c.words, CHOOSE order \in Orders(c.words) : TRUE)
          /\ LexiconInit(c.output_words, c.store, c.spn_phone, c.report)
    /\ SelectOff

NextLexicon ==
    \/ Call(1, "m1", "v1", "t1", FALSE)
    \/ EnsureModel(1)
    \/ Decide(1)
    \/ Begin(1)
    \/ Intents(1)
    \/ Clean(1)
    \/ LookupWords
    \/ RunG2P
    \/ ParseLine
    \/ EndOfOutput
    \/ Reserved
    \/ LexiconReturns
    \/ LexiconRaises
    \/ PrepareLang(1)
    \/ Arpa(1)
    \/ Fuzzy(1)
    \/ Mkgraph(1)
    \/ Online(1)
    \/ OpenRecord(1)
    \/ DumpRecord(1)

SpecLexicon == InitLexicon /\ [][NextLexicon]_vars

\* ---------------------------------------------------------------------
\* Properties of _create_lexicon, checked under SpecLexicon.
\* ---------------------------------------------------------------------

\* The word of a dictionary or report line: its first token.
entry_word(line) == split(line)[1]

\* The words that have at least one line in the file.
entry_words(file) == {entry_word(file.lines[k]) : k \in 1..Len(file.lines)}

\* The part of the dictionary written by the lookup loop (lines 240-251).
store_lines == lookup_lines(store, sorted(words))

\* C11: when _create_lexicon has returned, every word of fst.words other
\* than <unk> has at least one line in lexicon.txt, whatever the store
\* holds and whatever lines the G2P fallback returned.
C11_LexiconCoverage ==
    lx_pc = "returned" => \A w \in words \ {UNK} : w \in entry_words(dictionary_file)

\* The lines of a file that are entries of the word w, in file order.
entries_of(file, w) == SelectSeq(file.lines, LAMBDA l : entry_word(l) = w)

\* C12: the dictionary of a returned _create_lexicon holds the entry
\* (<unk>, spn_phone) after every word and fallback entry, followed by
\* exactly one entry (label, SIL) for every meta label; <unk> is never
\* looked up in the store and never listed for the fallback; a word found
\* in the store has one entry per pronunciation, in store order, repeats
\* included.
C12_ReservedEntries ==
    LET L == dictionary_file.lines
        n == Len(L)
        unk_at == n - Cardinality(meta_labels)
    IN  /\ \A k \in 1..Len(lookups) : lookups[k] # UNK
        /\ \A c \in 1..Len(g2p_calls) :
              \A k \in 1..Len(g2p_calls[c].wordlist) : g2p_calls[c].wordlist[k] # UNK
        /\ lx_pc = "returned" =>
              /\ unk_at >= 1
              /\ L[unk_at] = printed(UNK, spn_phone)
              /\ \A j \in 1..(unk_at - 1) : entry_word(L[j]) \in words \ {UNK}
              /\ \A j \in (unk_at + 1)..n : entry_word(L[j]) \in meta_labels
              /\ \A label \in meta_labels :
                    Cardinality({j \in 1..n : L[j] = printed(label, SIL)}) = 1
              /\ \A w \in words \ {UNK} :
                    lookup(store, w) # <<>> =>
                        entries_of(dictionary_file, w)
                            = [k \in 1..Len(lookup(store, w)) |->
                                   printed(w, join(lookup(store, w)[k]))]

\* _create_lexicon has returned for a vocabulary with <unk>, a homograph
\* with a repeated pronunciation, a fallback run and two meta labels.
C12_Witness ==
    /\ lx_pc = "returned"
    /\ UNK \in words
    /\ Cardinality(meta_labels) = 2
    /\ g2p_calls # <<>>
    /\ \E w \in words : Len(lookup(store, w)) = 3 /\ Len(entries_of(dictionary_file, w)) = 3

\* What the fallback parsing rule yields for one line of G2P output, by
\* the number of its whitespace-separated tokens: to the dictionary ...
rule_dictionary(line) ==
    LET tokens == split(line)
    IN  IF Len(tokens) < 2 THEN <<>>
        ELSE IF Len(tokens) = 2 THEN <<tokens[1] \o <<" ">> \o SIL>>
        ELSE <<tokens[1] \o <<" ">> \o spaced(SubSeq(tokens, 3, Len(tokens)))>>

\* ... and to the report of predicted pronunciations.
rule_report(line) ==
    LET tokens == split(line)
    IN  IF Len(tokens) < 3 THEN <<>>
        ELSE <<tokens[1] \o <<" ">> \o spaced(SubSeq(tokens, 3, Len(tokens)))>>

\* The rule applied to the first n lines of the output, in order.
RECURSIVE rule_over(_, _, _)
rule_over(rule(_), out, n) ==
    IF n = 0 THEN <<>> ELSE rule_over(rule, out, n - 1) \o rule(out[n])

\* C13: of each line of G2P output, split on whitespace, a line of fewer
\* than 2 tokens yields nothing; a line of exactly 2 tokens yields the
\* dictionary entry (word, SIL) and nothing in the report; a line of 3
\* or more tokens yields the entry (first token, tokens from the third on
\* joined by single spaces) in the dictionary and in the report.
C13_FallbackParsing ==
    lx_pc \in {"parse", "reserved", "returned"} =>
        LET fallback == rule_over(rule_dictionary, phonetisaurus_output, out_no)
            head == store_lines \o fallback
        IN  /\ Len(dictionary_file.lines) >= Len(head)
            /\ SubSeq(dictionary_file.lines, 1, Len(head)) = head
            /\ lx_pc = "parse" => dictionary_file.lines = head
            /\ report.lines = rule_over(rule_report, phonetisaurus_output, out_no)

\* The fallback returned a line of 2 tokens and a line of 4 tokens, both
\* were handled and _create_lexicon has returned.
C13_Witness ==
    /\ lx_pc = "returned"
    /\ out_no = 2
    /\ \E j, k \in 1..Len(phonetisaurus_output) :
          /\ Len(split(phonetisaurus_output[j])) = 2
          /\ Len(split(phonetisaurus_output[k])) = 4
    /\ Len(report.lines) = 1

\* The steps of train() after _create_lexicon (lines 113-136).
LaterStages == {"symlink utils", "_prepare_lang", "_create_arpa", "_create_fuzzy_fst",
                "_mkgraph", "_prepare_online_decoding", "open training_info",
                "dump training_info"}

\* Some invocation of the G2P fallback failed.
g2p_failed == \E c \in 1..Len(g2p_calls) : ~g2p_calls[c].ok

\* C14: when the G2P fallback process fails, _create_lexicon raises,
\* train() runs none of prepare_lang, LM creation, fuzzy FST, mkgraph and
\* online-decoding preparation and writes no record; nothing else makes
\* _create_lexicon raise: a 2-token line is handled and the build goes on.
C14_FallbackFailureIsFatal ==
    /\ g2p_failed =>
          /\ lx_pc = "raised"
          /\ pc[1] \in {"lexicon", "done"}
          /\ pc[1] = "done" =>
                result[1].kind = "raised" /\ result[1].stage = "_create_lexicon"
          /\ \A k \in 1..Len(ops[1]) : ops[1][k] \notin LaterStages
          /\ training_info_file["m1"] = NoRecord
    /\ lx_pc = "raised" => g2p_failed

\* The fallback process failed and the exception has left train().
C14_Witness ==
    /\ g2p_failed
    /\ pc[1] = "done"
    /\ result[1].kind = "raised"
    /\ report = FileWith(<<>>)

\* ---------------------------------------------------------------------
\* Order of the steps of train(), checked under Spec and SpecCrash.
\* ---------------------------------------------------------------------

\* C15: in a build, the prior record is gone before grammar assembly and
\* stays away until the record write, which comes last; the data
\* directory is gone when the first stage writes under it, and the
\* decoder-graph directory is gone when mkgraph writes it.
C15_StaleOutputsRemoved ==
    \A i \in Invocations :
        LET m == model_of(i)
        IN  /\ pc[i] \in PipelinePcs \ {"begin", "dump"} => training_info_file[m] = NoRecord
            /\ pc[i] = "lexicon" => data_dir[m] = NoOutput
            /\ pc[i] = "mkgraph" => graph_dir[m] = NoOutput
            /\ \A k \in 1..Len(ops[i]) :
                  ops[i][k] = "open training_info" => k >= Len(ops[i]) - 1

\* The steps of train() in the order of its statements: download (47),
\* grammar assembly (72), base automaton (74), lexicon (109), language
\* preparation (119), language model (122), fuzzy automaton (123),
\* decoder graph (126), online decoding (129), record (132-136).
StepOrder == <<"download_model", "write sentences.yaml", "intents_to_fst",
               "_create_lexicon", "_prepare_lang", "_create_arpa", "_create_fuzzy_fst",
               "_mkgraph", "_prepare_online_decoding", "open training_info",
               "dump training_info">>

\* The order with the fuzzy automaton built right after the lexicon,
\* before the external compilation stages.
FuzzyFirstOrder == <<"download_model", "write sentences.yaml", "intents_to_fst",
                     "_create_lexicon", "_create_fuzzy_fst", "_prepare_lang", "_create_arpa",
                     "_mkgraph", "_prepare_online_decoding", "open training_info",
                     "dump training_info">>

position(order, step) == CHOOSE k \in 1..Len(order) : order[k] = step

steps_in(log_, order) == SelectSeq(log_, LAMBDA o : o \in RangeOf(order))

\* The steps of the log are taken in the given order, none twice.
in_order(log_, order) ==
    LET steps == steps_in(log_, order)
    IN  \A k, l \in 1..Len(steps) :
            k < l => position(order, steps[k]) < position(order, steps[l])

\* The steps a completed build has run: all of them, but the download
\* only if the model was absent and online decoding only with an extractor.
steps_due(i) ==
    SelectSeq(StepOrder,
              LAMBDA o : /\ o = "download_model" => ~fs0[i].model_dir
                         /\ o = "_prepare_online_decoding" => extractor[model_of(i)])

\* The fingerprint and the decision come after the download and before
\* every step of the build.
decision_in_place(i) ==
    /\ pc[i] = "model_dir" => training_info[i] = NoInfo /\ ops[i] = <<>>
    /\ pc[i] = "decide" => steps_in(ops[i], StepOrder) \in {<<>>, <<"download_model">>}
    /\ pc[i] \in PipelinePcs => training_info[i] = fingerprint(i)

\* C16 as stated: the steps run one after another in the order download,
\* fingerprint, decision, grammar assembly, base automaton, lexicon, fuzzy
\* automaton, language preparation, language model, decoder graph, online
\* decoding, record.
C16_FuzzyBeforeCompilation ==
    \A i \in Invocations : decision_in_place(i) /\ in_order(ops[i], FuzzyFirstOrder)

\* C16 (amended): the steps run one after another in the order download,
\* fingerprint, decision, grammar assembly, base automaton, lexicon,
\* language preparation, language model, fuzzy automaton, decoder graph,
\* online decoding, record; a build that completes has run each of them.
C16_StepsInCodeOrder ==
    \A i \in Invocations :
        /\ decision_in_place(i)
        /\ in_order(ops[i], StepOrder)
        /\ (pc[i] = "done" /\ result[i].kind = "trained") =>
               steps_in(ops[i], StepOrder) = steps_due(i)

\* A build has completed that downloaded the model and prepared online
\* decoding: every step is in its log.
C16_Witness ==
    /\ pc[1] = "done"
    /\ result[1].kind = "trained"
    /\ steps_in(ops[1], StepOrder) = StepOrder

\* ---------------------------------------------------------------------
\* The fingerprint and the decision, checked under Spec and SpecCrash.
\* ---------------------------------------------------------------------

\* The first chunk_size bytes of a file.
first_bytes(content) == SubSeq(content, 1, Min(chunk_size, Len(content)))

\* A step keeps the selected paths of the model and the first chunk_size
\* bytes of every selected file.
agree_on_prefix(m) ==
    /\ selected_custom(m)' = selected_custom(m)
    /\ first_bytes(sentences[m])' = first_bytes(sentences[m])
    /\ \A k \in 1..Len(selected_custom(m)) :
          first_bytes(file_content(selected_custom(m)[k]))'
              = first_bytes(file_content(selected_custom(m)[k]))

\* C17: when the grammar sources are changed so that the selected paths
\* and the first chunk_size bytes of every file stay the same, the
\* sentences_hash stays the same; so after a change beyond the chunk
\* boundary only, the call that decides without force skips.
C17_PrefixOnlyFingerprint ==
    [][ /\ (sentences' # sentences \/ custom' # custom) =>
              \A m \in ModelIds :
                  agree_on_prefix(m) =>
                      _get_sentences_hash(m, chunk_size)' = _get_sentences_hash(m, chunk_size)
        /\ \A i \in Invocations :
              (pc[i] = "decide" /\ pc'[i] # "decide" /\ unchanged_since_success(i)) =>
                  result'[i].kind = "skipped" ]_vars

\* The builtin sentence file differs from the recorded build beyond the
\* chunk boundary only: the recorded hash is still the current one, and
\* the call skipped.
C17_Witness ==
    /\ pc[1] = "done"
    /\ result[1].kind = "skipped"
    /\ sentences["m1"][BuiltinLen] = 1
    /\ training_info_file["m1"].kind = "json"
    /\ training_info_file["m1"].info.sentences_hash = _get_sentences_hash("m1", chunk_size)
    /\ training_info_file["m1"].info.sentences_hash
           # Flatten(<<sentences["m1"]>> \o
                     [k \in 1..Len(selected_custom("m1")) |->
                         file_content(selected_custom("m1")[k])])

\* The record file found by the call is there and is not the record of
\* the fingerprint this call computed.
record_mismatch(i) ==
    /\ fs0[i].training_info_file.kind # "absent"
    /\ \/ fs0[i].training_info_file.kind # "json"
       \/ fs0[i].training_info_file.info # training_info[i]

\* C18: a record file that does not hold exactly the three fields of the
\* current fingerprint, a truncated file included, is a mismatch: the call
\* without force does not skip and does not raise at the decision, it goes
\* on to the build.
C18_MalformedRecordIsMismatch ==
    \A i \in Invocations :
        (decided(i) /\ ~args[i].force_retrain /\ record_mismatch(i)) =>
            /\ result[i].kind # "skipped"
            /\ in_pipeline(i)

\* ---------------------------------------------------------------------
\* Input validation and emission order of _create_fuzzy_fst, checked
\* under SpecFuzzy.
\* ---------------------------------------------------------------------

\* The line has the five fields source, destination, input label, output
\* label, weight.
five_fields(line) == Len(split(line)) = 5

\* A non-blank line without the five fields has been read.
malformed_read ==
    \E k \in 1..line_no : nonblank(text_fst[k]) /\ ~five_fields(text_fst[k])

\* C19: a non-blank base line without the five fields makes the function
\* fail: it does not run to its end, such a line is never copied to the
\* fuzzy text and no state is taken from it.
C19_MalformedLinesRejected ==
    /\ malformed_read => fz_pc # "done"
    /\ \A k \in 1..Len(text_fuzzy_fst) : five_fields(text_fuzzy_fst[k])
    /\ \A s \in states :
          \E k \in 1..line_no : five_fields(text_fst[k]) /\ first_field(text_fst[k]) = s

\* Lines 438-448 with the states and the words taken in the given orders.
emission(s_order, w_order) ==
    Flatten([k \in 1..Len(s_order) |->
                <<eps_loop(s_order[k])>> \o word_loops(s_order[k], w_order)])

\* C20: the lines the function adds are the same whatever order the set
\* of states and the set of words are iterated in: the per-state blocks
\* and the word self loops of each state come in one fixed order.
C20_DeterministicEmission ==
    fz_pc = "done" =>
        LET added == added_lines
        IN  \A s_order \in Orders(states), w_order \in Orders(words) :
                added = emission(s_order, w_order)

\* ---------------------------------------------------------------------
\* Invocations of the G2P fallback, checked under SpecLexicon.
\* ---------------------------------------------------------------------

\* The words of the vocabulary the store returns no pronunciation for.
unresolved_words == {w \in words \ {UNK} : lookup(store, w) = <<>>}

\* C21: within one build the G2P fallback is invoked at most once, with
\* the full list of the words the store had no pronunciation for, and it
\* is invoked if and only if that set is not empty; when nothing is
\* missing, no fallback runs, no report is written and a report of an
\* earlier build is removed.
C21_FallbackAtMostOnce ==
    /\ Len(g2p_calls) <= 1
    /\ \A c \in 1..Len(g2p_calls) :
          /\ RangeOf(g2p_calls[c].wordlist) = unresolved_words
          /\ Len(g2p_calls[c].wordlist) = Cardinality(unresolved_words)
    /\ lx_pc \in {"parse", "raised", "reserved", "returned"} =>
          /\ g2p_calls # <<>> <=> unresolved_words # {}
          /\ report.exists <=> unresolved_words # {}
          /\ unresolved_words = {} => report = NoFile

\* The fallback was invoked once for two missing words and
\* _create_lexicon has returned.
C21_Witness ==
    /\ lx_pc = "returned"
    /\ Len(g2p_calls) = 1
    /\ Cardinality(unresolved_words) = 2
    /\ report.exists

\* ---------------------------------------------------------------------
\* SpecPair: two callers, one per model identifier, run train() calls
\* whose steps interleave in every way.
\* ---------------------------------------------------------------------

\* A disk with an extractor, where nothing was trained yet.
InitPair ==
    /\ TrainInit(CHOOSE disk \in InitialDisks : disk.graph_old = "none")
    /\ FuzzyInit(<<>>, {}, <<>>)
    /\ RegistryInit
    /\ LexiconOff
    /\ SelectOff

NextPair ==
    \/ \E f \in BOOLEAN : Call(1, "m1", "v1", "t1", f)
    \/ Call(2, "m2", "v1", "t1", FALSE)
    \/ TrainStep(1)
    \/ TrainStep(2)

SpecPair == InitPair /\ [][NextPair]_vars

\* What belongs to one invocation, and the files of one model.
own(i) == <<pc[i], args[i], training_info[i], result[i], ops[i], fs0[i]>>
artifacts(m) == snapshot(m)

builtin_path(m) == <<<<"sentences", language[m]>>, "builtin.yaml">>

\* Lines 528-547: the files _get_sentences_hash opens, in order.
opened_by_hash(m) == <<builtin_path(m)>> \o selected_custom(m)

\* Lines 163-169: the directory _create_intents takes for one root.
intents_dir_for_language(m, root) ==
    IF ~custom[<<root, language[m]>>].is_dir
    THEN IF ~custom[<<root, language_family[m]>>].is_dir
         THEN <<>>
         ELSE <<<<root, language_family[m]>>>>
    ELSE <<<<root, language[m]>>>>

\* Lines 171-177 for one root: sorted(dir_for_language.glob("*.yaml")).
RECURSIVE intents_custom(_, _)
intents_custom(m, roots) ==
    IF roots = <<>> THEN <<>>
    ELSE LET d == intents_dir_for_language(m, Head(roots))
             names == IF d = <<>> THEN <<>> ELSE sorted_glob(custom[d[1]])
         IN  [k \in 1..Len(names) |-> <<d[1], names[k]>>]
             \o intents_custom(m, Tail(roots))

\* Lines 144-177: the files _create_intents opens for reading, in order.
opened_by_intents(m) == <<builtin_path(m)>> \o intents_custom(m, custom_sentences_dirs)

\* Lines 49-53: train() computes the fingerprint.
HashSentences ==
    /\ hash_opened = <<>>
    /\ hash_opened' = opened_by_hash("m1")
    /\ UNCHANGED <<train_vars, fuzzy_vars, registry_vars, lexicon_vars, intents_opened>>

\* Line 72: train() assembles the grammar.
CreateIntents ==
    /\ intents_opened = <<>>
    /\ intents_opened' = opened_by_intents("m1")
    /\ UNCHANGED <<train_vars, fuzzy_vars, registry_vars, lexicon_vars, hash_opened>>

\* What a custom sentence directory of the model's language or language
\* family can be: missing, empty, or holding one or two yaml files.
DirOptions == {NoDir, DirWith({}), DirWith({"b.yaml"}), DirWith({"a.yaml", "b.yaml"})}

CustomConfigurations ==
    {c \in [DirPaths -> DirOptions] :
        \A p \in DirPaths : p[2] \notin {language["m1"], language_family["m1"]} => c[p] = NoDir}

InitSelect ==
    /\ \E c \in CustomConfigurations :
          TrainInit([custom |-> c, graph_old |-> "none", extractor |-> TRUE])
    /\ FuzzyInit(<<>>, {}, <<>>)
    /\ RegistryInit
    /\ LexiconOff
    /\ SelectOff

NextSelect ==
    \/ HashSentences
    \/ CreateIntents

SpecSelect == InitSelect /\ [][NextSelect]_vars

\* The position of a root in settings.custom_sentences_dirs and of a file
\* name in sorted order.
root_no(path) == position(custom_sentences_dirs, path[1][1])
name_no(path) == position(YamlOrder, path[2])

\* The files are opened as the selection rule says: the builtin file
\* first, then root by root in configured order, within a root the yaml
\* files of one directory in sorted order, that directory being the
\* exact-language one if it exists and the family one otherwise, all of
\* its yaml files included.
as_selected(opened, m) ==
    /\ opened[1] = builtin_path(m)
    /\ \A k \in 2..Len(opened) :
          LET root == opened[k][1][1]
              exact == <<root, language[m]>>
              family == <<root, language_family[m]>>
          IN  /\ opened[k][1] = IF custom[exact].is_dir THEN exact ELSE family
              /\ custom[opened[k][1]].is_dir
              /\ opened[k][2] \in DOMAIN custom[opened[k][1]].yaml
              /\ \A l \in (k + 1)..Len(opened) :
                    \/ root_no(opened[k]) < root_no(opened[l])
                    \/ /\ root_no(opened[k]) = root_no(opened[l])
                       /\ name_no(opened[k]) < name_no(opened[l])
    /\ \A r \in RangeOf(custom_sentences_dirs) :
          LET d == IF custom[<<r, language[m]>>].is_dir THEN <<r, language[m]>>
                   ELSE <<r, language_family[m]>>
          IN  custom[d].is_dir =>
                  \A n \in DOMAIN custom[d].yaml : <<d, n>> \in RangeOf(Tail(opened))

\* C23: _get_sentences_hash and _create_intents open the same sentence
\* files in the same order: the builtin file, then for each root in
\* configured order the yaml files of the exact-language directory if it
\* exists and of the language-family directory otherwise, in sorted
\* order; the family directory is not read when the exact one exists.
C23_SameSourcesSelected ==
    /\ hash_opened # <<>> => as_selected(hash_opened, "m1")
    /\ intents_opened # <<>> => as_selected(intents_opened, "m1")
    /\ (hash_opened # <<>> /\ intents_opened # <<>>) => hash_opened = intents_opened

\* Both functions have run where the first root has both directories with
\* files and the second has only the family directory with two files.
C23_Witness ==
    /\ hash_opened # <<>>
    /\ intents_opened # <<>>
    /\ custom[<<"r1", "en_US">>] = DirWith({"b.yaml"})
    /\ custom[<<"r1", "en">>] = DirWith({"a.yaml", "b.yaml"})
    /\ ~custom[<<"r2", "en_US">>].is_dir
    /\ custom[<<"r2", "en">>] = DirWith({"a.yaml", "b.yaml"})
    /\ Len(intents_opened) = 4

\* ---------------------------------------------------------------------
\* SpecOverlap: train() is called twice for the same model identifier with
\* no registry around it; the steps of the two invocations interleave in
\* every way.  Each invocation is one call, the first with force_retrain.
\* ---------------------------------------------------------------------

CallStep(i) ==
    \/ EnsureModel(i)
    \/ Decide(i)
    \/ Begin(i)
    \/ Intents(i)
    \/ Clean(i)
    \/ Lexicon(i)
    \/ PrepareLang(i)
    \/ Arpa(i)
    \/ Fuzzy(i)
    \/ Mkgraph(i)
    \/ Online(i)
    \/ OpenRecord(i)
    \/ DumpRecord(i)
    \/ \E kind \in {"failed", "cancelled"} : Raise(i, kind)

NextOverlap ==
    \/ Call(1, "m1", "v1", "t1", TRUE)
    \/ Call(2, "m1", "v1", "t1", FALSE)
    \/ \E i \in Invocations : CallStep(i)

SpecOverlap == InitPair /\ [][NextOverlap]_vars

\* The record file of the model is on disk, whole or being written.
record_on_disk(m) == training_info_file[m].kind # "absent"

\* The invocation is between its deletion of the data directory (84-86)
\* and the completion of its last stage (129).
mid_build(i) ==
    pc[i] \in {"lexicon", "prepare_lang", "arpa", "fuzzy", "mkgraph", "online"}

\* The invocation has completed its last stage and is writing or has
\* written the record.
wrote_record(j) ==
    \/ pc[j] = "dump"
    \/ pc[j] = "done" /\ result[j].kind = "trained"

\* C24 as stated: with two overlapping invocations of train() on one
\* model, whenever the record file is on disk no invocation is between
\* its deletion of the data directory and the completion of its last
\* stage.
C24_RecordNeverWithPartialBuild ==
    \A i \in Invocations : record_on_disk(args[i].model) => ~mid_build(i)

\* C24 (amended): a record on disk while an invocation is between its
\* deletion of the data directory and its last stage is the record of the
\* other invocation, which overlapped it: the file was not a whole record
\* when this invocation was called, and the other invocation has completed
\* its last stage.  Without overlap the record and a build under way do
\* not coexist.
C24_OnlyOverlapBreaksPredicate ==
    \A i \in Invocations :
        (record_on_disk(args[i].model) /\ mid_build(i)) =>
            /\ fs0[i].training_info_file.kind # "json"
            /\ \E j \in Invocations \ {i} :
                  /\ pc[j] # "idle"
                  /\ args[j].model = args[i].model
                  /\ wrote_record(j)

\* The first invocation has written the whole record while the second is
\* in its stages with the data directory partly rebuilt.
C24_Witness ==
    /\ pc[1] = "done"
    /\ result[1].kind = "trained"
    /\ training_info_file["m1"].kind = "json"
    /\ pc[2] = "arpa"
    /\ data_dir["m1"].state = "partial"

====
